---- MODULE Spec2Model ----
(***************************************************************************)
(* Model of package flagstruct (creachadair/flagstruct): registration of   *)
(* tagged struct fields as flags in a flag.FlagSet.                        *)
(*                                                                         *)
(* Strings are sequences of one-character strings, so that splitting a    *)
(* tag at its first comma, prefixing a name and parsing a default text    *)
(* are computed character by character as the code computes them.         *)
(*                                                                         *)
(* The model follows the package as src/unnamed/part_002 holds it, with   *)
(* the flag-default tag; src/flagstruct.go is the same code without       *)
(* setDefault.                                                            *)
(*                                                                         *)
(* Integer widths are scaled down: an int64/uint64 has WideBits bits, and *)
(* the platform's int/uint (strconv.IntSize) has intSize bits, which is   *)
(* WideBits on a 64-bit build and NarrowBits on a 32-bit build.           *)
(***************************************************************************)
EXTENDS Integers, Sequences, FiniteSets, TLC

\* ------------------------------------------------------------------ bounds

\* Bits of int64 and uint64 (64 in the program, scaled down).
WideBits == 5
\* Bits of int and uint on a 32-bit build (32 in the program, scaled down).
NarrowBits == 3
\* Most fields of a record of the main specification.
MaxFields == 3
\* Most RegisterTag calls on one flag-set.
MaxCalls == 2
\* Most command-line arguments handed to the flag-set's parser.
MaxArgs == 2
\* Longest flag tag of the tag specification.
MaxTagLen == 4
\* Longest default text of the default specification.
MaxTextLen == 3

\* ----------------------------------------------------------------- strings

RECURSIVE Pow2(_)
Pow2(k) == IF k = 0 THEN 1 ELSE 2 * Pow2(k - 1)

\* All sequences over alphabet A of length at most n.
StringsUpTo(A, n) == UNION {[1..k -> A] : k \in 0..n}

Digits == <<"0", "1", "2", "3", "4", "5", "6", "7", "8", "9">>

IsDigit(c) == \E d \in 1..10 : Digits[d] = c

DigitVal(c) == (CHOOSE d \in 1..10 : Digits[d] = c) - 1

\* strings.Index(s, ","): the position of the first comma, 0 when there is none.
RECURSIVE IndexFrom(_, _, _)
IndexFrom(s, c, i) ==
    IF i > Len(s) THEN 0
    ELSE IF s[i] = c THEN i
    ELSE IndexFrom(s, c, i + 1)

IndexComma(s) == IndexFrom(s, ",", 1)

\* Mutant of SplitN2: strings.Split, which cuts at every comma.
RECURSIVE SplitAll(_)
SplitAll(tag) ==
    LET i == IndexComma(tag) IN
    IF i = 0 THEN <<tag>>
    ELSE <<SubSeq(tag, 1, i - 1)>> \o SplitAll(SubSeq(tag, i + 1, Len(tag)))

\* strings.SplitN(tag, ",", 2): at most two parts, cut at the first comma.
SplitN2(tag) ==
    LET i == IndexComma(tag) IN
    IF i = 0 THEN <<tag>>
    ELSE <<SubSeq(tag, 1, i - 1), SubSeq(tag, i + 1, Len(tag))>>

\* -------------------------------------------------------------- values

\* A field's value: b for bool, n for the numeric kinds (a duration counts
\* hours), s for string; the components a kind does not use stay zero.
BoolV(b) == [b |-> b, n |-> 0, s |-> <<>>]
NumV(n) == [b |-> FALSE, n |-> n, s |-> <<>>]
StrV(s) == [b |-> FALSE, n |-> 0, s |-> s]
UnitV == [b |-> FALSE, n |-> 0, s |-> <<>>]

\* What a parser returns: the value, and whether err is nil. A failed parse
\* still returns a value (zero, or the nearest bound for a range error),
\* which the flag package's Set methods store.
Ok(v) == [ok |-> TRUE, val |-> v]
FailV(v) == [ok |-> FALSE, val |-> v]
Fail == FailV(UnitV)

\* ------------------------------------------------------------- strconv

\* The digit loop of strconv.ParseUint: -1 for a syntax error, -2 for a
\* value past max, each reported at the first character that causes it.
RECURSIVE AccDigits(_, _, _, _)
AccDigits(s, base, max, acc) ==
    IF s = <<>> THEN acc
    ELSE IF ~IsDigit(Head(s)) THEN -1
    ELSE IF DigitVal(Head(s)) >= base THEN -1
    ELSE LET n == acc * base + DigitVal(Head(s)) IN
         IF n > max THEN -2 ELSE AccDigits(Tail(s), base, max, n)

\* strconv.ParseUint(s, 0, bits): -1 syntax error, -2 out of range. Base 0
\* reads a leading "0" as an octal prefix; the "0x", "0b", "0o" prefixes and
\* the underscore use letters that are syntax errors in the digit loop.
ParseUintRaw(s, bits) ==
    IF s = <<>> THEN -1
    ELSE IF Head(s) = "0" /\ Len(s) > 1
         THEN AccDigits(Tail(s), 8, Pow2(bits) - 1, 0)
    ELSE AccDigits(s, 10, Pow2(bits) - 1, 0)

ParseUint(s, bits) ==
    LET un == ParseUintRaw(s, bits) IN
    IF un = -1 THEN Fail
    ELSE IF un = -2 THEN FailV(NumV(Pow2(bits) - 1))
    ELSE Ok(NumV(un))

\* strconv.ParseInt(s, 0, bits): an optional sign, then ParseUint, then the
\* cutoff 2^(bits-1) (which only a negative value may reach).
ParseInt(s, bits) ==
    IF s = <<>> THEN Fail
    ELSE LET neg == Head(s) = "-"
             body == IF Head(s) \in {"+", "-"} THEN Tail(s) ELSE s
             raw == ParseUintRaw(body, bits)
             un == IF raw = -2 THEN Pow2(bits) - 1 ELSE raw
             cutoff == Pow2(bits - 1)
         IN  IF raw = -1 THEN Fail
             ELSE IF ~neg /\ un >= cutoff THEN FailV(NumV(cutoff - 1))
             ELSE IF neg /\ un > cutoff THEN FailV(NumV(0 - cutoff))
             ELSE Ok(NumV(IF neg THEN 0 - un ELSE un))

\* strconv.ParseBool.
ParseBool(s) ==
    IF s \in {<<"1">>, <<"t">>, <<"T">>, <<"T", "R", "U", "E">>,
              <<"t", "r", "u", "e">>, <<"T", "r", "u", "e">>}
    THEN Ok(BoolV(TRUE))
    ELSE IF s \in {<<"0">>, <<"f">>, <<"F">>, <<"F", "A", "L", "S", "E">>,
                   <<"f", "a", "l", "s", "e">>, <<"F", "a", "l", "s", "e">>}
    THEN Ok(BoolV(FALSE))
    ELSE Fail

\* The decimal digits of a literal read as a number, without a range.
RECURSIVE DecimalValue(_, _)
DecimalValue(s, acc) ==
    IF s = <<>> THEN acc
    ELSE IF ~IsDigit(Head(s)) THEN -1
    ELSE DecimalValue(Tail(s), acc * 10 + DigitVal(Head(s)))

\* strconv.ParseFloat(s, 64) on integral decimal literals: an optional sign
\* and at least one digit. (A fraction, an exponent, "inf", "nan" and the
\* hexadecimal form use characters that no modelled text holds.)
ParseFloat(s) ==
    IF s = <<>> THEN Fail
    ELSE LET neg == Head(s) = "-"
             body == IF Head(s) \in {"+", "-"} THEN Tail(s) ELSE s
             m == IF body = <<>> THEN -1 ELSE DecimalValue(body, 0)
         IN  IF m < 0 THEN Fail ELSE Ok(NumV(IF neg THEN 0 - m ELSE m))

\* The length of the longest prefix of s made of digits (digit = TRUE) or of
\* characters that are not digits (digit = FALSE).
RECURSIVE RunLen(_, _)
RunLen(s, digit) ==
    IF s = <<>> THEN 0
    ELSE IF IsDigit(Head(s)) = digit THEN 1 + RunLen(Tail(s), digit)
    ELSE 0

\* The loop of time.ParseDuration: groups of digits followed by a unit, the
\* unit being every character up to the next digit. Hours are the only unit
\* the modelled texts can spell; a duration is counted in hours. -1 for an
\* invalid duration (no digits, a missing or unknown unit, or overflow).
RECURSIVE DurationGroups(_, _, _)
DurationGroups(s, max, acc) ==
    IF s = <<>> THEN acc
    ELSE LET nd == RunLen(s, TRUE)
             rest == SubSeq(s, nd + 1, Len(s))
             nu == RunLen(rest, FALSE)
             v == DecimalValue(SubSeq(s, 1, nd), 0)
         IN  IF nd = 0 THEN -1
             ELSE IF nu = 0 THEN -1
             ELSE IF SubSeq(rest, 1, nu) # <<"h">> THEN -1
             ELSE IF acc + v > max THEN -1
             ELSE DurationGroups(SubSeq(rest, nu + 1, Len(rest)), max, acc + v)

\* time.ParseDuration(s): [-+]?([0-9]+unit)+, or "0".
ParseDuration(s) ==
    IF s = <<>> THEN Fail
    ELSE LET neg == Head(s) = "-"
             body == IF Head(s) \in {"+", "-"} THEN Tail(s) ELSE s
             max == Pow2(WideBits - 1) - 1
             d == IF body = <<"0">> THEN 0
                  ELSE IF body = <<>> THEN -1
                  ELSE DurationGroups(body, max, 0)
         IN  IF d < 0 THEN Fail ELSE Ok(NumV(IF neg THEN 0 - d ELSE d))

\* strconv.Itoa on a natural number.
RECURSIVE NatText(_)
NatText(n) ==
    IF n < 10 THEN <<Digits[n + 1]>>
    ELSE NatText(n \div 10) \o <<Digits[(n % 10) + 1]>>

IntText(n) == IF n < 0 THEN <<"-">> \o NatText(0 - n) ELSE NatText(n)

\* time.Duration.String for a whole number of hours: "2h0m0s", and "0s".
DurationText(n) ==
    IF n = 0 THEN <<"0", "s">>
    ELSE IntText(n) \o <<"h", "0", "m", "0", "s">>

\* int(z) and uint(z): the conversion keeps the low bits.
WrapInt(z, bits) == ((z + Pow2(bits - 1)) % Pow2(bits)) - Pow2(bits - 1)
WrapUint(z, bits) == z % Pow2(bits)


\* ---------------------------------------------------------------- types

\* The built-in types the type switches of setDefault and register name.
BuiltinTypes ==
    {"bool", "duration", "float64", "int64", "int", "string", "uint64", "uint"}

\* Field types: the built-ins, dummy (the test's type whose pointer
\* implements flag.Value) and rune (int32: neither built-in nor a Value).
FieldTypes == BuiltinTypes \cup {"dummy", "rune"}

\* Whether a pointer to the type implements flag.Value (String and Set).
ImplementsValue(type) == type = "dummy"

\* The value a field of the type holds when the record is built.
InitVal(type) ==
    CASE type = "bool" -> BoolV(FALSE)
      [] type = "string" -> StrV(<<"s">>)
      [] type = "dummy" -> UnitV
      [] OTHER -> NumV(3)

\* A struct field: its visibility, its flag and flag-default tag values
\* (empty when the key is absent), its type and its current value.
Field(exported, tag, dtag, type) ==
    [exported |-> exported, tag |-> tag, dtag |-> dtag, type |-> type,
     val |-> InitVal(type)]

\* The String method of a flag's value: the text of the flag's DefValue.
ValueText(type, val) ==
    CASE type = "bool" ->
            IF val.b THEN <<"t", "r", "u", "e">> ELSE <<"f", "a", "l", "s", "e">>
      [] type = "string" -> val.s
      [] type = "duration" -> DurationText(val.n)
      [] type = "dummy" -> <<>>
      [] OTHER -> IntText(val.n)

\* ------------------------------------------------------------ the scanner

\* Mutant of newFlagInfo: the check of sf.PkgPath is missing.
newFlagInfo_unexported(sf, i) ==
    IF sf.tag = <<>>
    THEN [ok |-> FALSE, fi |-> [field |-> i, name |-> <<>>, help |-> <<>>,
                                hasDval |-> FALSE, dval |-> <<>>]]
    ELSE LET ps == SplitN2(sf.tag) IN
         [ok |-> TRUE,
          fi |-> [field |-> i,
                  name |-> IF Len(ps) = 2 THEN ps[1] ELSE sf.tag,
                  help |-> IF Len(ps) = 2 THEN ps[2] ELSE sf.tag,
                  hasDval |-> sf.dtag # <<>>,
                  dval |-> sf.dtag]]

\* Mutant of newFlagInfo: the descriptor points at the struct's first field
\* instead of the field scanned.
newFlagInfo_firstField(sf, i) ==
    IF sf.tag = <<>> \/ ~sf.exported
    THEN [ok |-> FALSE, fi |-> [field |-> i, name |-> <<>>, help |-> <<>>,
                                hasDval |-> FALSE, dval |-> <<>>]]
    ELSE LET ps == SplitN2(sf.tag) IN
         [ok |-> TRUE,
          fi |-> [field |-> 1,
                  name |-> IF Len(ps) = 2 THEN ps[1] ELSE sf.tag,
                  help |-> IF Len(ps) = 2 THEN ps[2] ELSE sf.tag,
                  hasDval |-> sf.dtag # <<>>,
                  dval |-> sf.dtag]]

\* newFlagInfo: nil, false for an unexported field or an empty flag tag;
\* else the descriptor, its name and help cut at the first comma and its
\* dval set when the flag-default tag is not empty.
newFlagInfo(sf, i) ==
    IF sf.tag = <<>> \/ ~sf.exported
    THEN [ok |-> FALSE, fi |-> [field |-> i, name |-> <<>>, help |-> <<>>,
                                hasDval |-> FALSE, dval |-> <<>>]]
    ELSE LET ps == SplitN2(sf.tag) IN
         [ok |-> TRUE,
          fi |-> [field |-> i,
                  name |-> IF Len(ps) = 2 THEN ps[1] ELSE sf.tag,
                  help |-> IF Len(ps) = 2 THEN ps[2] ELSE sf.tag,
                  hasDval |-> sf.dtag # <<>>,
                  dval |-> sf.dtag]]

\* Mutant of ScanFields: each descriptor is put in front of the list.
RECURSIVE ScanFields_reversed(_, _)
ScanFields_reversed(fields, i) ==
    IF i > Len(fields) THEN <<>>
    ELSE LET r == newFlagInfo(fields[i], i) IN
         IF r.ok THEN ScanFields_reversed(fields, i + 1) \o <<r.fi>>
         ELSE ScanFields_reversed(fields, i + 1)

\* The loop of parseFlags over fields i..NumField, in declaration order.
RECURSIVE ScanFields(_, _)
ScanFields(fields, i) ==
    IF i > Len(fields) THEN <<>>
    ELSE LET r == newFlagInfo(fields[i], i) IN
         IF r.ok THEN <<r.fi>> \o ScanFields(fields, i + 1)
         ELSE ScanFields(fields, i + 1)

\* Mutant of parseFlags: the check that the value is a pointer is missing.
parseFlags_noPointerCheck(val) ==
    IF val.kind # "struct" THEN [err |-> "NotAStruct", flags |-> <<>>]
    ELSE [err |-> "nil", flags |-> ScanFields(val.fields, 1)]

\* parseFlags: the error, or the descriptors of the flaggable fields.
parseFlags(val) ==
    IF ~val.ptr THEN [err |-> "NotAPointer", flags |-> <<>>]
    ELSE IF val.kind # "struct" THEN [err |-> "NotAStruct", flags |-> <<>>]
    ELSE [err |-> "nil", flags |-> ScanFields(val.fields, 1)]

\* ---------------------------------------------------------- the registrar

\* Mutant of setDefault: the default text is never applied.
setDefault_skipped(fi, sf, bits) == [out |-> "nil", val |-> sf.val]

\* Mutant of setDefault: a parse error is dropped and the field keeps its
\* value.
setDefault_swallowed(fi, sf, bits) ==
    IF ~fi.hasDval THEN [out |-> "nil", val |-> sf.val]
    ELSE IF ImplementsValue(sf.type) THEN [out |-> "nil", val |-> sf.val]
    ELSE IF sf.type \notin BuiltinTypes THEN [out |-> "panic", val |-> sf.val]
    ELSE LET r == CASE sf.type = "bool" -> ParseBool(fi.dval)
                    [] sf.type = "duration" -> ParseDuration(fi.dval)
                    [] sf.type = "float64" -> ParseFloat(fi.dval)
                    [] sf.type \in {"int", "int64"} -> ParseInt(fi.dval, WideBits)
                    [] sf.type = "string" -> Ok(StrV(fi.dval))
                    [] sf.type \in {"uint", "uint64"} -> ParseUint(fi.dval, WideBits)
             conv == CASE sf.type = "int" -> NumV(WrapInt(r.val.n, bits))
                    [] sf.type = "uint" -> NumV(WrapUint(r.val.n, bits))
                    [] OTHER -> r.val
         IN  [out |-> "nil", val |-> IF r.ok THEN conv ELSE sf.val]

\* setDefault: "nil" with the value the field holds afterwards, "err" when
\* the default text does not parse (the field is not written), "panic" for
\* a type the switch does not name. dummy.Set accepts every text and
\* stores nothing. An int or uint is converted from the 64-bit result.
setDefault(fi, sf, bits) ==
    IF ~fi.hasDval THEN [out |-> "nil", val |-> sf.val]
    ELSE IF ImplementsValue(sf.type) THEN [out |-> "nil", val |-> sf.val]
    ELSE IF sf.type \notin BuiltinTypes THEN [out |-> "panic", val |-> sf.val]
    ELSE LET r == CASE sf.type = "bool" -> ParseBool(fi.dval)
                    [] sf.type = "duration" -> ParseDuration(fi.dval)
                    [] sf.type = "float64" -> ParseFloat(fi.dval)
                    [] sf.type \in {"int", "int64"} -> ParseInt(fi.dval, WideBits)
                    [] sf.type = "string" -> Ok(StrV(fi.dval))
                    [] sf.type \in {"uint", "uint64"} -> ParseUint(fi.dval, WideBits)
             conv == CASE sf.type = "int" -> NumV(WrapInt(r.val.n, bits))
                    [] sf.type = "uint" -> NumV(WrapUint(r.val.n, bits))
                    [] OTHER -> r.val
         IN  IF r.ok THEN [out |-> "nil", val |-> conv]
             ELSE [out |-> "err", val |-> sf.val]

\* Whether the flag-set holds a flag of the name.
Defined(flagset, name) == \E k \in 1..Len(flagset) : flagset[k].name = name

\* Mutant of Var: the flag is added without the check for its name.
Var_unchecked(flagset, flag) == [out |-> "nil", fs |-> Append(flagset, flag)]

\* flag.FlagSet.Var: panics ("flag redefined") when the name is taken, else
\* adds the flag, its DefValue the text of the value.
Var(flagset, flag) ==
    IF Defined(flagset, flag.name)
    THEN [out |-> "panic", fs |-> flagset]
    ELSE [out |-> "nil", fs |-> Append(flagset, flag)]

\* Mutant of p: a separator between the prefix and the name.
p_separated(prefix, s) == prefix \o <<"_">> \o s

\* The prefixed name: p := func(s string) string { return prefix + s }.
p(prefix, s) == prefix \o s

\* The type switch of register, after setDefault has written val: a Value
\* or a built-in goes to the flag-set, any other type is an error.
registerSwitch(fi, sf, val, flagset, prefix) ==
    IF ImplementsValue(sf.type) \/ sf.type \in BuiltinTypes
    THEN Var(flagset, [name |-> p(prefix, fi.name), usage |-> fi.help,
                       defValue |-> ValueText(sf.type, val),
                       field |-> fi.field, type |-> sf.type])
    ELSE [out |-> "UnsupportedType", fs |-> flagset]

\* ------------------------------------------------------ the flag parser

\* The Set method of a flag's value on an argument text: the built-ins
\* parse at the platform's width and store the result also when the parse
\* fails; dummy.Set stores nothing.
SetValue(type, old, text, bits) ==
    CASE type = "bool" -> ParseBool(text)
      [] type = "duration" -> ParseDuration(text)
      [] type = "float64" -> ParseFloat(text)
      [] type = "int64" -> ParseInt(text, WideBits)
      [] type = "int" -> ParseInt(text, bits)
      [] type = "string" -> Ok(StrV(text))
      [] type = "uint64" -> ParseUint(text, WideBits)
      [] type = "uint" -> ParseUint(text, bits)
      [] OTHER -> Ok(old)

\* FlagSet.Lookup: the index of the flag of the name, 0 when undefined.
Lookup(flagset, name) ==
    IF Defined(flagset, name)
    THEN CHOOSE k \in 1..Len(flagset) : flagset[k].name = name
    ELSE 0

\* ---------------------------------------------------------------- state

VARIABLES
    v,         \* the value handed to RegisterTag, with its fields' values
    v0,        \* v as the caller built it, before any call
    fs,        \* the flag-set: its flags, in the order they were defined
    intSize,   \* strconv.IntSize of the build
    prefix,    \* the tag argument of the current RegisterTag call
    pc,        \* idle, register (in the loop), returned, panicked, parsing
    flags,     \* the descriptors parseFlags returned to the current call
    idx,       \* the descriptor the loop of RegisterTag is at
    err,       \* what the latest call returned, or the panic that ended it
    calls,     \* RegisterTag calls made so far
    fsAtCall,  \* fs when the current call began
    vAtCall,   \* v when the current call began
    args,      \* the command-line arguments the parser has processed
    parseOk,   \* whether the parser has not failed yet
    baseline   \* v when the parser began

vars ==
    <<v, v0, fs, intSize, prefix, pc, flags, idx, err, calls, fsAtCall,
      vAtCall, args, parseOk, baseline>>

\* ---------------------------------------------------------------- inputs

Prefixes == {<<>>, <<"p", "_">>}

\* The flag tags of the main specification: a name alone, and a name with help.
TagA == <<"a">>
TagB == <<"b", ",", "h">>

\* The fields of the main specification: for each tag an int without a
\* default, with a default that parses (past the narrow int's range) and
\* with one that does not, and a rune (no flag.Value, no built-in) without
\* and with a default; a dummy (a flag.Value) with a default; and two fields
\* the scanner skips.
FieldDecls ==
    {Field(TRUE, t, d, "int") : t \in {TagA, TagB}, d \in {<<>>, <<"1", "2">>, <<"t">>}}
    \cup {Field(TRUE, t, d, "rune") : t \in {TagA, TagB}, d \in {<<>>, <<"1">>}}
    \cup {Field(TRUE, TagB, <<"t">>, "dummy")}
    \cup {Field(FALSE, TagA, <<"1">>, "rune"), Field(TRUE, <<>>, <<"1">>, "float64")}

\* Records of at most n fields drawn from decls.
Records(decls, n) == UNION {[1..k -> decls] : k \in 0..n}

PtrStruct(fields) == [ptr |-> TRUE, kind |-> "struct", fields |-> fields]

\* Values that are not a pointer to a struct: a string, an int, a struct
\* passed by value, a pointer to an int.
NonRecords ==
    {[ptr |-> FALSE, kind |-> "string", fields |-> <<>>],
     [ptr |-> FALSE, kind |-> "int", fields |-> <<>>],
     [ptr |-> TRUE, kind |-> "int", fields |-> <<>>]}
    \cup {[ptr |-> FALSE, kind |-> "struct", fields |-> <<f>>] : f \in FieldDecls}

Inputs == NonRecords \cup {PtrStruct(r) : r \in Records(FieldDecls, MaxFields)}

\* Argument texts handed to the flag-set's parser.
ArgTexts == {<<"2">>, <<"t">>}

\* A flag name no modelled tag spells.
UndefinedName == <<"z">>

InitWith(inputs) ==
    /\ v \in inputs
    /\ v0 = v
    /\ fs = <<>>
    /\ intSize \in {NarrowBits, WideBits}
    /\ prefix = <<>>
    /\ pc = "idle"
    /\ flags = <<>>
    /\ idx = 1
    /\ err = "none"
    /\ calls = 0
    /\ fsAtCall = <<>>
    /\ vAtCall = v
    /\ args = <<>>
    /\ parseOk = TRUE
    /\ baseline = v

Init == InitWith(Inputs)

\* --------------------------------------------------------------- actions

\* RegisterTag(tag, v, fs) up to its loop: parseFlags, then the error
\* returns for a bad value and for a record without flaggable fields.
Call(tag) ==
    /\ pc \in {"idle", "returned"}
    /\ calls < MaxCalls
    /\ LET r == parseFlags(v) IN
       /\ flags' = r.flags
       /\ IF r.err # "nil" THEN pc' = "returned" /\ err' = r.err
          ELSE IF Len(r.flags) = 0
               THEN pc' = "returned" /\ err' = "NoFlaggableFields"
          ELSE pc' = "register" /\ err' = "none"
    /\ prefix' = tag
    /\ idx' = 1
    /\ calls' = calls + 1
    /\ fsAtCall' = fs
    /\ vAtCall' = v
    /\ UNCHANGED <<v, v0, fs, intSize, args, parseOk, baseline>>

\* One iteration of RegisterTag's loop, fi.register(fs, tag): setDefault,
\* then the type switch; the return of the first error, and of nil after
\* the last descriptor.
RegisterField ==
    /\ pc = "register"
    /\ LET fi == flags[idx]
           sf == v.fields[fi.field]
           d == setDefault(fi, sf, intSize)
           r == registerSwitch(fi, sf, d.val, fs, prefix)
       IN  IF d.out = "panic"
           THEN /\ pc' = "panicked"
                /\ err' = "panic: invalid target for default"
                /\ UNCHANGED <<v, fs, idx>>
           ELSE IF d.out = "err"
           THEN /\ pc' = "returned"
                /\ err' = "DefaultParseError"
                /\ UNCHANGED <<v, fs, idx>>
           ELSE /\ v' = [v EXCEPT !.fields[fi.field].val = d.val]
                /\ fs' = r.fs
                /\ IF r.out = "panic"
                   THEN pc' = "panicked" /\ err' = "panic: flag redefined"
                        /\ idx' = idx
                   ELSE IF r.out # "nil"
                   THEN pc' = "returned" /\ err' = r.out /\ idx' = idx
                   ELSE /\ idx' = idx + 1
                        /\ IF idx = Len(flags)
                           THEN pc' = "returned" /\ err' = "nil"
                           ELSE pc' = "register" /\ err' = "none"
    /\ UNCHANGED <<v0, intSize, prefix, flags, calls, fsAtCall, vAtCall,
                   args, parseOk, baseline>>

\* FlagSet.Parse on one more argument -name=text, after a successful
\* registration: an undefined name or a text the flag's Set rejects ends the
\* parse with an error.
ParseArg(name, text) ==
    /\ pc \in {"returned", "parsing"}
    /\ err = "nil"
    /\ parseOk
    /\ Len(args) < MaxArgs
    /\ LET k == Lookup(fs, name) IN
       IF k = 0
       THEN /\ parseOk' = FALSE
            /\ args' = Append(args, [name |-> name, text |-> text, ok |-> FALSE])
            /\ v' = v
       ELSE LET f == fs[k]
                r == SetValue(f.type, v.fields[f.field].val, text, intSize)
            IN  /\ v' = [v EXCEPT !.fields[f.field].val = r.val]
                /\ parseOk' = r.ok
                /\ args' = Append(args, [name |-> name, text |-> text, ok |-> r.ok])
    /\ pc' = "parsing"
    /\ baseline' = IF pc = "returned" THEN v ELSE baseline
    /\ UNCHANGED <<v0, fs, intSize, prefix, flags, idx, err, calls, fsAtCall,
                   vAtCall>>

\* The names a caller puts on the command line: the defined flags' and one
\* that is not defined.
ArgNames == {fs[k].name : k \in 1..Len(fs)} \cup {UndefinedName}

Next ==
    \/ \E tag \in Prefixes : Call(tag)
    \/ RegisterField
    \/ \E name \in ArgNames, text \in ArgTexts : ParseArg(name, text)

Spec == Init /\ [][Next]_vars

\* ------------------------------------------- the other specifications

TagAlphabet == {"a", "b", ","}

\* One exported or unexported int field under every tag of at most
\* MaxTagLen characters.
TagInputs ==
    {PtrStruct(<<Field(e, t, <<>>, "int")>>) :
        e \in BOOLEAN, t \in StringsUpTo(TagAlphabet, MaxTagLen)}

InitTags == InitWith(TagInputs)

\* The registration of records whose one field carries an arbitrary tag.
SpecTags == InitTags /\ [][Next]_vars

TextAlphabet == {"1", "2", "-", "t", "h"}

\* One flagged field of every type under every default text of at most
\* MaxTextLen characters.
DefaultInputs ==
    {PtrStruct(<<Field(TRUE, TagB, d, type)>>) :
        d \in StringsUpTo(TextAlphabet, MaxTextLen), type \in FieldTypes}

InitDefaults == InitWith(DefaultInputs)

\* The registration of records whose one field carries an arbitrary default.
SpecDefaults == InitDefaults /\ [][Next]_vars

\* ------------------------------------------------ vocabulary of the claims

\* A field is eligible when it is exported and carries a flag declaration.
Eligible(sf) == sf.exported /\ sf.tag # <<>>

EligibleIdx(fields) == {i \in 1..Len(fields) : Eligible(fields[i])}

IsRecord(val) == val.ptr /\ val.kind = "struct"

HasComma(s) == \E i \in 1..Len(s) : s[i] = ","

\* The first comma of a string that has one.
FirstComma(s) ==
    CHOOSE i \in 1..Len(s) : s[i] = "," /\ \A j \in 1..(i - 1) : s[j] # ","

\* The declared name and help of a flag declaration.
DeclName(tag) ==
    IF HasComma(tag) THEN SubSeq(tag, 1, FirstComma(tag) - 1) ELSE tag

DeclHelp(tag) ==
    IF HasComma(tag) THEN SubSeq(tag, FirstComma(tag) + 1, Len(tag)) ELSE tag

Supported(type) == type \in BuiltinTypes \/ ImplementsValue(type)

\* The text parsed into a built-in kind of the given int width.
KindParse(type, text, bits) ==
    CASE type = "bool" -> ParseBool(text)
      [] type = "duration" -> ParseDuration(text)
      [] type = "float64" -> ParseFloat(text)
      [] type = "int64" -> ParseInt(text, WideBits)
      [] type = "int" -> ParseInt(text, bits)
      [] type = "string" -> Ok(StrV(text))
      [] type = "uint64" -> ParseUint(text, WideBits)
      [] type = "uint" -> ParseUint(text, bits)

HasDefault(sf) == sf.dtag # <<>>

\* The default text parses into the field's kind.
GoodDefault(sf) ==
    HasDefault(sf) /\ sf.type \in BuiltinTypes
    /\ KindParse(sf.type, sf.dtag, intSize).ok

\* The default text is one the 64-bit parser of the field's kind rejects.
BadDefault(sf) ==
    HasDefault(sf) /\ sf.type \in BuiltinTypes
    /\ ~KindParse(sf.type, sf.dtag, WideBits).ok

\* The field of descriptor j of the current call, as the caller declared it.
DescField(j) == v0.fields[flags[j].field]

\* The current call is over, by a return or by a panic.
Ended == pc \in {"returned", "panicked"}

\* The loop of the current call stopped at descriptor idx without
\* registering it.
StoppedAt(i) == Ended /\ i = idx /\ i <= Len(flags)

\* The flags the current call has added to the flag-set, in order.
Added == SubSeq(fs, Len(fsAtCall) + 1, Len(fs))

\* The flags of the flag-set that point at field i.
FlagsOf(i) == {k \in 1..Len(fs) : fs[k].field = i}

\* ------------------------------------------------------------------ claims

\* The call is the one a claim about a single registration on an empty
\* flag-set speaks of.
OnEmptyFlagSet == fsAtCall = <<>>

\* The record meets the preconditions of C1: a pointer to a struct with an
\* eligible field, every eligible field of a supported type, with a name of
\* its own and with no default text or one that parses into its kind.
WellDeclared ==
    /\ IsRecord(v0)
    /\ EligibleIdx(v0.fields) # {}
    /\ \A i \in EligibleIdx(v0.fields) :
          /\ Supported(v0.fields[i].type)
          /\ HasDefault(v0.fields[i]) /\ v0.fields[i].type \in BuiltinTypes
                => GoodDefault(v0.fields[i])
          /\ \A j \in EligibleIdx(v0.fields) :
                i # j => DeclName(v0.fields[i].tag) # DeclName(v0.fields[j].tag)

C2_NoFlaggableFields ==
    (calls > 0 /\ IsRecord(v0) /\ EligibleIdx(v0.fields) = {}) =>
        /\ pc = "returned"
        /\ err = "NoFlaggableFields"
        /\ fs = <<>>
        /\ v = v0

\* A struct of an unexported tagged field and an exported untagged one.
C2_Witness ==
    /\ calls > 0 /\ IsRecord(v0) /\ EligibleIdx(v0.fields) = {}
    /\ err = "NoFlaggableFields"
    /\ \E i, j \in 1..Len(v0.fields) :
          /\ ~v0.fields[i].exported /\ v0.fields[i].tag # <<>>
          /\ v0.fields[j].exported /\ v0.fields[j].tag = <<>>

\* C3: a call on a value that is not a pointer returns NotAReference, one on
\* a pointer to something that is not a struct returns the distinct
\* NotARecord, and neither adds a flag or changes a value.
C3_NotAReferenceNotARecord ==
    (calls > 0 /\ ~IsRecord(v0)) =>
        /\ pc = "returned"
        /\ ~v0.ptr => err = "NotAPointer"
        /\ v0.ptr => err = "NotAStruct"
        /\ fs = <<>>
        /\ v = v0

\* A struct with an eligible field handed over by value.
C3_Witness ==
    /\ calls > 0
    /\ ~v0.ptr /\ v0.kind = "struct"
    /\ EligibleIdx(v0.fields) # {}
    /\ err = "NotAPointer"

\* C4: the descriptor of an exported field with a non-empty declaration has
\* the text before the first comma as its name and all the text after it as
\* its help, and the whole declaration as both when it holds no comma; and
\* every such field has a descriptor.
C4_NameAndHelp ==
    (calls > 0 /\ IsRecord(v0)) =>
        /\ \A j \in 1..Len(flags) :
              LET tag == v0.fields[flags[j].field].tag IN
              /\ HasComma(tag) =>
                    /\ flags[j].name = SubSeq(tag, 1, FirstComma(tag) - 1)
                    /\ flags[j].help = SubSeq(tag, FirstComma(tag) + 1, Len(tag))
              /\ ~HasComma(tag) => flags[j].name = tag /\ flags[j].help = tag
        /\ {flags[j].field : j \in 1..Len(flags)} = EligibleIdx(v0.fields)

\* A declaration with two commas: the second one stays in the help.
C4_Witness ==
    /\ calls > 0 /\ IsRecord(v0)
    /\ \E j \in 1..Len(flags) :
          /\ v0.fields[flags[j].field].tag = <<"a", ",", "b", ",">>
          /\ flags[j].name = <<"a">>
          /\ flags[j].help = <<"b", ",">>

\* C5: after a successful registration, a built-in field whose default text
\* parses into its kind holds the parsed default, and that default, not the
\* value the field held before, is the baseline of its flag; a field
\* without a default declaration holds the value it held before, which is
\* the baseline of its flag.
C5_DefaultOverride ==
    (pc = "returned" /\ err = "nil") =>
        \A i \in EligibleIdx(v0.fields) :
           LET sf == v0.fields[i] IN
           /\ FlagsOf(i) # {}
           /\ GoodDefault(sf) =>
                 LET d == KindParse(sf.type, sf.dtag, intSize).val IN
                 /\ v.fields[i].val = d
                 /\ \A k \in FlagsOf(i) : fs[k].defValue = ValueText(sf.type, d)
           /\ ~HasDefault(sf) =>
                 /\ v.fields[i].val = sf.val
                 /\ \A k \in FlagsOf(i) :
                       fs[k].defValue = ValueText(sf.type, sf.val)

\* An int field that held 3 registered with the default text "-2": the
\* field holds -2 and the flag's baseline reads "-2".
C5_Witness ==
    /\ pc = "returned" /\ err = "nil"
    /\ v0.fields[1].type = "int"
    /\ v0.fields[1].val = NumV(3)
    /\ v0.fields[1].dtag = <<"-", "2">>
    /\ v.fields[1].val = NumV(-2)
    /\ fs[1].defValue = <<"-", "2">>

\* The latest processed argument that names a flag of field i, 0 when no
\* argument does.
LastArgOf(i) ==
    LET named == {j \in 1..Len(args) :
                     \E k \in FlagsOf(i) : fs[k].name = args[j].name}
    IN  IF named = {} THEN 0
        ELSE CHOOSE j \in named : \A l \in named : l <= j

\* C6: while the flag-set parses arguments after a successful registration,
\* a flagged built-in field named in the arguments holds the value parsed
\* from the latest argument that names it, a flagged field no argument names
\* holds its baseline, and a field that is unexported or has no flag
\* declaration has no flag and holds the value it had before registration.
C6_ParseFrame ==
    /\ \A i \in 1..Len(v0.fields) :
          ~Eligible(v0.fields[i]) =>
              FlagsOf(i) = {} /\ v.fields[i].val = v0.fields[i].val
    /\ pc = "parsing" =>
          \A i \in EligibleIdx(v0.fields) :
             LET j == LastArgOf(i) IN
             /\ j = 0 => v.fields[i].val = baseline.fields[i].val
             /\ (j # 0 /\ args[j].ok /\ v0.fields[i].type \in BuiltinTypes) =>
                   v.fields[i].val =
                      KindParse(v0.fields[i].type, args[j].text, intSize).val

\* Two arguments parsed into a record of a flagged field named twice, a
\* flagged field never named and a field without a flag.
C6_Witness ==
    /\ pc = "parsing" /\ parseOk /\ Len(args) = 2
    /\ Len(v0.fields) = 3
    /\ \E i, j, l \in 1..3 :
          /\ ~Eligible(v0.fields[i])
          /\ Eligible(v0.fields[j]) /\ LastArgOf(j) = 2
          /\ v.fields[j].val # baseline.fields[j].val
          /\ Eligible(v0.fields[l]) /\ LastArgOf(l) = 0

\* C7 as stated: a default text that does not parse makes RegisterTag fail
\* with the flag-set holding no flag added by that call.
C7_Original ==
    (pc = "returned" /\ err = "DefaultParseError") => fs = fsAtCall

\* C7 as amended: the loop never passes an eligible field whose default
\* text its parser rejects; it stops there with the parse error, no flag
\* added for that field or a later one, and exactly the flags of the
\* eligible fields before it added by the call.
C7_NoMutationForThatField ==
    Ended =>
        \A j \in 1..Len(flags) :
           (BadDefault(DescField(j)) /\ j <= idx) =>
               /\ StoppedAt(j)
               /\ pc = "returned"
               /\ err = "DefaultParseError"
               /\ Len(Added) = j - 1
               /\ \A k \in 1..Len(Added) : Added[k].field = flags[k].field

\* The second of two eligible fields carries the text that does not parse:
\* the first field's flag is in the flag-set when the error returns.
C7_Witness ==
    /\ pc = "returned" /\ err = "DefaultParseError"
    /\ idx = 2
    /\ BadDefault(DescField(2))
    /\ Len(Added) = 1
    /\ Added[1].field = flags[1].field

\* C8: when the loop reaches an eligible field whose type is neither a
\* built-in nor a flag.Value, RegisterTag returns the UnsupportedType error,
\* with or without a default declaration on the field, and never panics.
C8_UnsupportedTypeReturned ==
    \A j \in 1..Len(flags) :
       (StoppedAt(j) /\ ~Supported(DescField(j).type)) =>
           pc = "returned" /\ err = "UnsupportedType"

\* Some descriptor of the current call collides: it has the name of an
\* earlier descriptor, or its prefixed name was in the flag-set already.
Collision(j) ==
    \/ \E l \in 1..(j - 1) : flags[l].name = flags[j].name
    \/ Defined(fsAtCall, prefix \o flags[j].name)

Applied(sf) ==
    LET r == KindParse(sf.type, sf.dtag, WideBits).val IN
    CASE sf.type = "int" -> NumV(WrapInt(r.n, intSize))
      [] sf.type = "uint" -> NumV(WrapUint(r.n, intSize))
      [] OTHER -> r

====
